---- MODULE Spec2Model ----
(***************************************************************************)
(* Model of the football dashboard (src/app.py).                           *)
(*                                                                         *)
(* The warehouse table is the environment: a bag (SQL multiset) of rows    *)
(* over a schema, fixed during a behaviour.  The program is the Streamlit  *)
(* script: each script run routes to one page, which calls a cached fetch  *)
(* function (get_live_data / get_historical_data) and renders a view from  *)
(* its result.  One action per script run of a page; the fetch functions   *)
(* and the pandas conversions are operators computed as the code computes. *)
(* Time passes between script runs; an entry of st.cache_data is served    *)
(* while it is younger than the ttl of its function.                       *)
(***************************************************************************)
EXTENDS Integers, Sequences, FiniteSets, Bags, TLC

VARIABLES
    schema,      \* columns of the warehouse table
    table,       \* content of the warehouse table: a bag of rows
    live_cache,  \* st.cache_data entry of get_live_data
    hist_cache,  \* st.cache_data entry of get_historical_data
    live_age,    \* seconds since live_cache was stored (saturates at its ttl)
    hist_age,    \* seconds since hist_cache was stored (saturates at its ttl)
    queried,     \* what the last step sent to the executor: "live" or "hist"
                 \* (the query of a fetch function), "none" (a run served
                 \* from the cache), "idle" (no run: time passed)
    page,        \* page of the last script run
    screen,      \* st.error / st.warning / st.info messages of the last run
    view         \* what the last run's page computed and handed to the widgets

vars == <<schema, table, live_cache, hist_cache, live_age, hist_age, queried,
          page, screen, view>>

----------------------------------------------------------------------------
(* Bounds and domains *)

\* Largest number of rows of the warehouse table.
MaxRows == 3

\* The day of the cutoff literal '2026-02-13' of get_historical_data.
CutoffDay == 13

\* @st.cache_data(ttl=600) and @st.cache_data(ttl=3600), in seconds.
LiveTtl == 600
HistTtl == 3600

\* The steps in which the model's clock advances, in seconds: a fine one
\* (several steps within the shorter ttl) and a coarse one (several steps
\* within the longer ttl only).
Tick == 300
LongTick == 1800

\* SQL NULL / Python None in a text column.
NULL == "<NULL>"

\* ingested_at is ISO text "2026-02-DD HH:.."; modelled as the tuple <<DD, HH>>,
\* compared as the text is compared (left to right).
Days == {CutoffDay - 1, CutoffDay, CutoffDay + 1}
Hours == {0, 1}
Timestamps == {<<d, h>> : d \in Days, h \in Hours}

Ids == {1, 2}
Teams == {"ARS", "CHE"}
Names == {"Saka", "Rice"}

\* A cell of a metric column as the query engine delivers it: a number, SQL
\* NULL, or text (a varchar column: empty, a numeral, or anything else).
Num(n) == [kind |-> "num", num |-> n, text |-> ""]
Text(s) == [kind |-> "text", num |-> 0, text |-> s]
NullCell == [kind |-> "null", num |-> 0, text |-> ""]
NaN == [kind |-> "nan", num |-> 0, text |-> ""]

\* The columns of the model; the code's other metric columns are handled by
\* the same loops as goals, assists (numeric_cols) and form (float_cols), and
\* the table is taken to have the further columns the charts read.  Every
\* row carries an id and an ingested_at (the ingestion tags each capture).
NameColumns == {"name", "web_name"}
MetricColumns == {"goals", "assists", "form"}
KeyColumns == {"id", "ingested_at", "team"}
AllColumns == KeyColumns \cup NameColumns \cup MetricColumns \cup {"total_points"}

\* The injury note and the availability percent, which a table may lack.
OptionalColumns == {"injury_news", "chance_of_playing"}

\* A row with one total point, and with NULL in the optional columns.
Row(i, ts, tm, nm, wn, g, a, f) ==
    [id |-> i, ingested_at |-> ts, team |-> tm, name |-> nm, web_name |-> wn,
     goals |-> g, assists |-> a, form |-> f, total_points |-> Num(1),
     injury_news |-> NULL, chance_of_playing |-> NullCell]

----------------------------------------------------------------------------
(* Bags of rows *)

RECURSIVE SumOver(_, _)
\* Sum of b[r] over r in S.
SumOver(S, b) ==
    IF S = {} THEN 0
    ELSE LET r == CHOOSE x \in S : TRUE IN b[r] + SumOver(S \ {r}, b)

RECURSIVE BagsOfSize(_, _)
\* All bags of exactly n rows drawn from U.
BagsOfSize(U, n) ==
    IF n = 0 THEN {EmptyBag}
    ELSE {b (+) SetToBag({r}) : b \in BagsOfSize(U, n - 1), r \in U}

BagsUpTo(U, n) == UNION {BagsOfSize(U, k) : k \in 0..n}

\* The rows of bag b that are in the set S, with their multiplicities.
BagRestrict(b, S) == [r \in DOMAIN b \cap S |-> b[r]]

\* len(df)
BagLen(b) == SumOver(DOMAIN b, b)

----------------------------------------------------------------------------
(* The query executor (Athena through awswrangler) *)

RECURSIVE TextLess(_, _)
\* a < b as the engine orders two texts: left to right, a proper prefix first.
TextLess(a, b) ==
    IF b = <<>> THEN FALSE
    ELSE IF a = <<>> THEN TRUE
    ELSE IF Head(a) # Head(b) THEN Head(a) < Head(b)
    ELSE TextLess(Tail(a), Tail(b))

\* The outcomes of wr.athena.read_sql_query that the fetch functions tell apart.
ExecOutcomes == {"ok", "NoCredentialsError", "Exception"}

\* The row instances of a bag: <<row, k>> for the k-th copy of the row.
Instances(b) == UNION {{<<r, k>> : k \in 1..b[r]} : r \in DOMAIN b}

\* RANK() in place of ROW_NUMBER(): rows that tie on ingested_at share a rank.
RowNumberingsRank(b) ==
    LET I == Instances(b)
    IN  {[i \in I |-> 1 + Cardinality({j \in I : /\ j[1].id = i[1].id
                                                 /\ TextLess(i[1].ingested_at,
                                                             j[1].ingested_at)})]}

\* ROW_NUMBER() OVER (PARTITION BY id ORDER BY ingested_at DESC): every
\* numbering the engine may produce.  Within a partition the numbers are
\* 1..size without repetition and follow ingested_at descending; the order of
\* rows that tie on ingested_at is the engine's choice.
RowNumberings(b) ==
    LET I == Instances(b)
        Part(i) == {j \in I : j[1].id = i[1].id}
    IN  {rn \in [I -> 1..Cardinality(I)] :
            \A i \in I :
                /\ rn[i] <= Cardinality(Part(i))
                /\ \A j \in Part(i) \ {i} :
                      /\ rn[j] # rn[i]
                      /\ TextLess(j[1].ingested_at, i[1].ingested_at)
                            => rn[i] < rn[j]}

\* An off-by-one in the rank filter.
RankFilterSecond(n) == n = 2

\* WHERE rank = 1
RankFilter(n) == n = 1

\* SELECT * FROM RankedPlayers WHERE rank = 1, for the numbering rn of bag b.
SelectRanked(b, rn) ==
    LET Kept(r) == {k \in 1..b[r] : RankFilter(rn[<<r, k>>])}
    IN  [r \in {x \in DOMAIN b : Kept(x) # {}} |-> Cardinality(Kept(r))]

\* The columns the live query itself names.
LiveQueryColumns == {"id", "ingested_at"}

\* The results the live query can deliver for the table: one per numbering.
LiveQueryResults(b) == {SelectRanked(b, rn) : rn \in RowNumberings(b)}

----------------------------------------------------------------------------
(* Messages *)

MsgNoCredentials == "AWS Credentials not found. Please configure your AWS environment."
MsgAthenaError == "Error connecting to AWS Athena"
MsgHistError == "Error fetching historical data"
MsgNoMatch == "No data matches your filters."
MsgEmptyTable == "Data fetched successfully but table is empty."
MsgHistUnavailable == "Historical data is loading or unavailable."
MsgNoInjuries == "No active injuries reported!"
MsgNoInjuryData == "Injury data not available in this view."

----------------------------------------------------------------------------
(* get_live_data *)

\* The value of a fetch function with the st.error it emitted (st.cache_data
\* stores both and replays the message on a hit).  ok = FALSE is None.
Frame(cols, rows) == [ok |-> TRUE, columns |-> cols, rows |-> rows, msgs |-> {}]
None(msg) == [ok |-> FALSE, columns |-> {}, rows |-> EmptyBag, msgs |-> {msg}]

\* if 'name' in df.columns and 'web_name' not in df.columns
NeedsRename(cols) == "name" \in cols /\ "web_name" \notin cols

\* df.rename(columns={'name': 'web_name'}) on one row.
RenameRow(r) == [r EXCEPT !.web_name = r.name, !.name = NULL]

\* df.rename(columns={'name': 'web_name'}, inplace=True) when NeedsRename.
RenameName(cols, rows) ==
    IF NeedsRename(cols)
    THEN Frame((cols \ {"name"}) \cup {"web_name"},
               [s \in {RenameRow(r) : r \in DOMAIN rows} |->
                    SumOver({r \in DOMAIN rows : RenameRow(r) = s}, rows)])
    ELSE Frame(cols, rows)

\* get_live_data() for an executor outcome and, when the query runs, the
\* rows it delivered.
get_live_data(outcome, delivered) ==
    IF outcome = "NoCredentialsError" THEN None(MsgNoCredentials)
    ELSE IF outcome = "Exception" \/ ~(LiveQueryColumns \subseteq schema)
    THEN None(MsgAthenaError)
    ELSE RenameName(schema \cup {"rank"}, delivered)

\* Every value a fresh call of get_live_data can return now.
GetLiveDataResults ==
    {get_live_data(o, EmptyBag) : o \in ExecOutcomes \ {"ok"}}
    \cup {get_live_data("ok", d) : d \in LiveQueryResults(table)}

----------------------------------------------------------------------------
(* pandas conversions *)

\* The numerals among the texts of the model and the number each one reads as.
Numerals == {"2"}
NumeralValue(s) == CASE s = "2" -> 2 [] OTHER -> 0

\* pd.to_numeric(x, errors='coerce') on one cell: a number stays, a numeral
\* text is read, NULL and any other text (the empty one too) become NaN.
to_numeric(c) ==
    IF c.kind = "num" THEN c
    ELSE IF c.kind = "text" /\ c.text \in Numerals THEN Num(NumeralValue(c.text))
    ELSE NaN

\* The conversion without .fillna(0): NaN stays in the data.
CoerceNoFill(c) == to_numeric(c)

\* pd.to_numeric(df[col], errors='coerce').fillna(0) on one cell.
Coerce(c) == LET n == to_numeric(c) IN IF n.kind = "nan" THEN Num(0) ELSE n

\* numeric_cols and float_cols of show_live_dashboard, among the model's columns.
LiveNumericCols == {"goals", "assists", "chance_of_playing"}
LiveFloatCols == {"form"}

\* One row after the two conversion loops over the columns the frame has.
ConvertRow(r, cols, convert) ==
    [r EXCEPT !.goals = IF "goals" \in cols \cap convert THEN Coerce(@) ELSE @,
              !.assists = IF "assists" \in cols \cap convert THEN Coerce(@) ELSE @,
              !.form = IF "form" \in cols \cap convert THEN Coerce(@) ELSE @,
              !.total_points =
                  IF "total_points" \in cols \cap convert THEN Coerce(@) ELSE @,
              !.chance_of_playing =
                  IF "chance_of_playing" \in cols \cap convert THEN Coerce(@) ELSE @]

\* The frame's rows after the conversion loops.
ConvertRows(rows, cols, convert) ==
    [s \in {ConvertRow(r, cols, convert) : r \in DOMAIN rows} |->
        SumOver({r \in DOMAIN rows : ConvertRow(r, cols, convert) = s}, rows)]

RECURSIVE SumCells(_, _, _)
\* df[col].sum() over the rows S of bag b (NaN is skipped by pandas).
SumCells(S, b, col) ==
    IF S = {} THEN 0
    ELSE LET r == CHOOSE x \in S : TRUE
         IN  (IF r[col].kind = "num" THEN r[col].num * b[r] ELSE 0)
             + SumCells(S \ {r}, b, col)

\* sorted(list) raises TypeError when the list mixes None with text.
SortedRaises(S) == NULL \in S /\ Cardinality(S) > 1

----------------------------------------------------------------------------
(* show_live_dashboard *)

\* What a page computed.  status: "rendered" (KPIs or aggregates computed),
\* "blank" (nothing drawn), "empty" / "unavailable" (the page's terminal
\* message only), "raised" (the run ended with exception exc).  rows is the
\* frame handed to the charts and tables, daily the rows of the daily
\* aggregates (chart "trend" and chart "comparison"), injuries the rows of
\* the table of the injuries tab.
View(status, exc, msgs, cols, rows, kpis, daily, sel) ==
    [status |-> status, exc |-> exc, msgs |-> msgs, columns |-> cols,
     rows |-> rows, kpis |-> kpis, daily |-> daily, sel |-> sel,
     injuries |-> EmptyBag]

NoSel == [teams |-> {}, players |-> {}, team |-> "", metric |-> "", player |-> ""]
NoView == View("none", "", {}, {}, EmptyBag, <<>>, {}, NoSel)
Raised(exc, sel) == View("raised", exc, {}, {}, EmptyBag, <<>>, {}, sel)

\* The guard without its second half.
HasRowsNotNone(df) == df.ok

\* if df is not None and not df.empty
HasRows(df) == df.ok /\ df.rows # EmptyBag

\* df['team'].unique() and the options of the player multiselect.
TeamsOf(rows) == {r.team : r \in DOMAIN rows}
AvailablePlayers(rows, selected_teams) ==
    IF selected_teams # {}
    THEN {r.web_name : r \in {x \in DOMAIN rows : x.team \in selected_teams}}
    ELSE {r.web_name : r \in DOMAIN rows}

\* The sidebar raises before any widget is drawn.
LiveSidebarRaises(df) ==
    \/ "team" \notin df.columns
    \/ SortedRaises(TeamsOf(df.rows))

\* The selections the two multiselects offer in one run: <<teams, players>>.
\* The options of the second depend on the selection of the first.
LiveSelections(df) ==
    IF ~df.ok \/ df.rows = EmptyBag \/ LiveSidebarRaises(df) THEN {<<{}, {}>>}
    ELSE UNION {
        {<<st, sp>> : sp \in
            IF "web_name" \notin df.columns
               \/ SortedRaises(AvailablePlayers(df.rows, st))
            THEN {{}}
            ELSE SUBSET AvailablePlayers(df.rows, st)}
        : st \in SUBSET TeamsOf(df.rows)}

\* The filters without the one by player.
ApplyTeamFilter(rows, selected_teams, selected_players) ==
    IF selected_teams # {}
    THEN BagRestrict(rows, {r \in DOMAIN rows : r.team \in selected_teams})
    ELSE rows

\* The filters of lines 181-189 (an empty selection does not filter).
ApplyFilters(rows, selected_teams, selected_players) ==
    LET byTeam == IF selected_teams # {}
                  THEN BagRestrict(rows, {r \in DOMAIN rows : r.team \in selected_teams})
                  ELSE rows
        byPlayer == IF selected_players # {}
                    THEN BagRestrict(byTeam, {r \in DOMAIN byTeam :
                                                  r.web_name \in selected_players})
                    ELSE byTeam
    IN  byPlayer

\* show_live_dashboard() on the value df of get_live_data, for the selections
\* of the two multiselects.
show_live_dashboard(df, selected_teams, selected_players) ==
    LET sel == [NoSel EXCEPT !.teams = selected_teams, !.players = selected_players]
    IN
    IF ~HasRows(df)
    THEN IF df.ok
         THEN View("empty", "", {MsgEmptyTable}, {}, EmptyBag, <<>>, {}, NoSel)
         ELSE View("blank", "", {}, {}, EmptyBag, <<>>, {}, NoSel)
    ELSE IF "team" \notin df.columns THEN Raised("KeyError", NoSel)
    ELSE IF SortedRaises(TeamsOf(df.rows)) THEN Raised("TypeError", NoSel)
    ELSE IF "web_name" \notin df.columns THEN Raised("KeyError", sel)
    ELSE IF SortedRaises(AvailablePlayers(df.rows, selected_teams))
    THEN Raised("TypeError", sel)
    ELSE
    LET filtered == ApplyFilters(df.rows, selected_teams, selected_players)
        msgs == IF filtered = EmptyBag THEN {MsgNoMatch} ELSE {}
        used == IF filtered = EmptyBag THEN df.rows ELSE filtered
        rows == ConvertRows(used, df.columns, LiveNumericCols \cup LiveFloatCols)
        \* df[df['injury_news'] != '']
        injury_df == BagRestrict(rows, {r \in DOMAIN rows : r.injury_news # ""})
        active_injuries ==
            IF "injury_news" \in df.columns THEN BagLen(injury_df) ELSE 0
        kpis == <<BagLen(rows), SumCells(DOMAIN rows, rows, "goals"),
                  SumCells(DOMAIN rows, rows, "assists"), active_injuries>>
    IN  IF ~({"goals", "assists"} \subseteq df.columns) THEN Raised("KeyError", sel)
        ELSE IF "injury_news" \notin df.columns
        THEN View("rendered", "", msgs \cup {MsgNoInjuryData}, df.columns, rows,
                  kpis, {}, sel)
        ELSE IF injury_df = EmptyBag
        THEN View("rendered", "", msgs \cup {MsgNoInjuries}, df.columns, rows,
                  kpis, {}, sel)
        \* injury_df[['web_name', 'team', 'injury_news', 'chance_of_playing']]
        \* raises in the last tab, after the KPI row and the other tabs were
        \* drawn; the run ends there.
        ELSE IF "chance_of_playing" \notin df.columns THEN Raised("KeyError", sel)
        ELSE [View("rendered", "", msgs, df.columns, rows, kpis, {}, sel)
                 EXCEPT !.injuries = injury_df]

----------------------------------------------------------------------------
(* get_historical_data *)

\* The columns the historical query names (SELECT list, WHERE, ORDER BY).
HistQueryColumns ==
    {"name", "team", "goals", "assists", "total_points", "form", "ingested_at"}

\* numeric_cols of get_historical_data, among the model's columns.
HistNumericCols == {"goals", "assists", "total_points", "form"}

\* The columns of the frame get_historical_data returns.
HistColumns ==
    {"web_name", "team", "goals", "assists", "total_points", "form", "ingested_at",
     "date"}

\* The cutoff literal '2026-02-13' as text.
Cutoff == <<CutoffDay>>

\* A filter that also drops the records of the cutoff day itself.
RetainedAfterDay(r) == r.ingested_at[1] > CutoffDay

\* WHERE ingested_at >= '2026-02-13'
Retained(r) == ~TextLess(r.ingested_at, Cutoff)

\* df['ingested_at'].dt.date: the calendar day of the timestamp.
DateOf(r) == r.ingested_at[1]

\* The id of a row of a frame that has no id column.
NoId == 0

\* SELECT name as web_name, team, goals, ..., ingested_at on one row.
HistProject(r) ==
    [r EXCEPT !.id = NoId, !.web_name = r.name, !.name = NULL,
              !.injury_news = NULL, !.chance_of_playing = NullCell]

\* The rows the historical query delivers for the table.
HistQueryResult(b) ==
    LET kept == {r \in DOMAIN b : Retained(r)}
    IN  [s \in {HistProject(r) : r \in kept} |->
            SumOver({r \in kept : HistProject(r) = s}, b)]

\* get_historical_data() for an executor outcome.
get_historical_data(outcome) ==
    IF outcome # "ok" \/ ~(HistQueryColumns \subseteq schema)
    THEN None(MsgHistError)
    ELSE LET df == RenameName(HistColumns \ {"date"}, HistQueryResult(table))
         IN  Frame(df.columns \cup {"date"},
                   ConvertRows(df.rows, df.columns, HistNumericCols))

\* Every value a fresh call of get_historical_data can return now.
GetHistoricalDataResults == {get_historical_data(o) : o \in ExecOutcomes}

----------------------------------------------------------------------------
(* show_team_analysis and show_player_stats *)

\* metrics of show_team_analysis, among the model's columns.
TeamMetrics == {"goals", "assists", "total_points", "form"}

\* df.groupby('date')[metric].sum().reset_index() over the rows S of bag b,
\* each row labelled with the chart and the team it belongs to.
DailySum(b, S, metric, chart, team) ==
    {[chart |-> chart, team |-> team, date |-> d,
      value |-> SumCells({r \in S : DateOf(r) = d}, b, metric)] :
        d \in {DateOf(r) : r \in S}}

\* The selections of show_team_analysis: <<team, metric, compare_teams>>.
TeamSelections(df) ==
    IF ~df.ok \/ df.rows = EmptyBag \/ SortedRaises(TeamsOf(df.rows))
    THEN {<<"", "", {}>>}
    ELSE UNION {{<<t, m, c>> : m \in TeamMetrics, c \in SUBSET (TeamsOf(df.rows) \ {t})} :
                   t \in TeamsOf(df.rows)}

\* show_team_analysis() on the value df_hist of get_historical_data.
show_team_analysis(df_hist, selected_team, selected_metric, compare_teams) ==
    LET sel == [NoSel EXCEPT !.team = selected_team, !.metric = selected_metric,
                             !.teams = compare_teams]
    IN
    IF ~HasRows(df_hist)
    THEN View("unavailable", "", {MsgHistUnavailable}, {}, EmptyBag, <<>>, {}, NoSel)
    ELSE IF SortedRaises(TeamsOf(df_hist.rows)) THEN Raised("TypeError", NoSel)
    ELSE
    LET b == df_hist.rows
        team_df == BagRestrict(b, {r \in DOMAIN b : r.team = selected_team})
        daily_stats == DailySum(team_df, DOMAIN team_df, selected_metric,
                                "trend", selected_team)
        comp_daily ==
            IF compare_teams = {} THEN {}
            ELSE UNION {DailySum(b, {r \in DOMAIN b : r.team = t}, selected_metric,
                                 "comparison", t) :
                          t \in {selected_team} \cup compare_teams}
    IN  View("rendered", "", {}, df_hist.columns, team_df, <<>>,
             daily_stats \cup comp_daily, sel)

RECURSIVE MaxCell(_, _)
\* df[col].max() over the rows S, a non-empty set of rows with numbers in col.
MaxCell(S, col) ==
    LET r == CHOOSE x \in S : TRUE
    IN  IF S = {r} THEN r[col].num
        ELSE LET m == MaxCell(S \ {r}, col)
             IN  IF r[col].num > m THEN r[col].num ELSE m

\* The options of the player selectbox for a team filter.
PlayerOptions(rows, sel_team) ==
    IF sel_team # "All"
    THEN {r.web_name : r \in {x \in DOMAIN rows : x.team = sel_team}}
    ELSE {r.web_name : r \in DOMAIN rows}

\* The selections of show_player_stats: <<sel_team, selected_player>>.
PlayerSelections(df) ==
    IF ~df.ok \/ df.rows = EmptyBag \/ SortedRaises(TeamsOf(df.rows))
    THEN {<<"", "">>}
    ELSE UNION {{<<t, p>> : p \in IF SortedRaises(PlayerOptions(df.rows, t))
                                  THEN {""} ELSE PlayerOptions(df.rows, t)} :
                   t \in {"All"} \cup TeamsOf(df.rows)}

\* show_player_stats() on the value df_hist of get_historical_data.
show_player_stats(df_hist, sel_team, selected_player) ==
    LET sel == [NoSel EXCEPT !.team = sel_team, !.player = selected_player]
    IN
    IF ~HasRows(df_hist)
    THEN View("unavailable", "", {MsgHistUnavailable}, {}, EmptyBag, <<>>, {}, NoSel)
    ELSE IF SortedRaises(TeamsOf(df_hist.rows)) THEN Raised("TypeError", NoSel)
    ELSE IF SortedRaises(PlayerOptions(df_hist.rows, sel_team))
    THEN Raised("TypeError", [sel EXCEPT !.player = ""])
    ELSE
    LET b == df_hist.rows
        \* df_hist['web_name'] == None matches no row
        player_df == BagRestrict(b, {r \in DOMAIN b : /\ selected_player # NULL
                                                       /\ r.web_name = selected_player})
    IN  IF player_df = EmptyBag THEN Raised("ValueError", sel)
        ELSE View("rendered", "", {}, df_hist.columns, player_df,
                  <<MaxCell(DOMAIN player_df, "goals"),
                    MaxCell(DOMAIN player_df, "assists"),
                    MaxCell(DOMAIN player_df, "total_points")>>, {}, sel)

----------------------------------------------------------------------------
(* The warehouse tables of the model *)

FullSchema == AllColumns
CanonSchema == AllColumns \ {"name"}
LegacySchema == AllColumns \ {"web_name"}

TeamOfId(i) == IF i = 1 THEN "ARS" ELSE "CHE"
NameOfId(i) == IF i = 1 THEN "Saka" ELSE "Rice"

\* Rows that differ in id, ingested_at and goals: older and newer captures of
\* an entity, and captures that tie on ingested_at.
DedupRows ==
    {Row(i, <<CutoffDay, h>>, TeamOfId(i), NULL, NameOfId(i), Num(g), Num(1), Num(1)) :
        i \in Ids, h \in Hours, g \in {1, 2}}

\* The cells a metric column can hold.
MetricCells == {NullCell, Text(""), Text("x"), Text("2"), Num(1)}

\* Rows that differ in their metric cells: an entity with every kind of cell
\* in goals, assists and form, and a second entity beside it.
FillRows ==
    {Row(1, <<CutoffDay, 0>>, "ARS", NULL, "Saka", m[1], m[2], m[3]) :
        m \in {<<c, Num(1), Num(1)>> : c \in MetricCells}
              \cup {<<Num(1), NullCell, Text("x")>>, <<Num(2), Text(""), NullCell>>}}
    \cup {Row(2, <<CutoffDay, 0>>, "CHE", NULL, "Rice", m[1], m[2], m[3]) :
        m \in {<<Num(1), Num(1), Num(1)>>, <<NullCell, NullCell, NullCell>>}}

\* Rows that differ in the two name columns, for a schema.
NameRows(s) ==
    {Row(i, <<CutoffDay, 0>>, "ARS", nm, wn, Num(1), Num(1), Num(1)) :
        i \in Ids,
        nm \in IF "name" \in s THEN {NULL, "Saka"} ELSE {NULL},
        wn \in IF "web_name" \in s THEN {NULL, "Rice"} ELSE {NULL}}

\* Rows of a table that has no assists column.
NoAssistsRows ==
    {Row(1, <<CutoffDay, 0>>, "ARS", NULL, "Saka", c, NullCell, Num(1)) :
        c \in {Num(1), NullCell}}

\* The schemas with every combination of the two optional columns.
InjurySchemas == {CanonSchema \cup opt : opt \in SUBSET OptionalColumns}

\* Rows of a table with such a schema: an entity without an injury note
\* (the empty text), with a note and an availability percent, and with a
\* note and no percent; a second entity without a note.  A column the
\* schema lacks holds NULL.
InjuryRows(s) ==
    {[Row(e[1], <<CutoffDay, 0>>, TeamOfId(e[1]), NULL, NameOfId(e[1]),
          Num(1), Num(1), Num(1))
        EXCEPT !.injury_news = IF "injury_news" \in s THEN e[2] ELSE NULL,
               !.chance_of_playing =
                   IF "chance_of_playing" \in s THEN e[3] ELSE NullCell] :
        e \in {<<1, "", NullCell>>, <<1, "Knee", Num(50)>>, <<1, "Knee", NullCell>>,
               <<2, "", Num(100)>>}}

\* The <<schema, table>> pairs the live page is run on.
LiveWarehouses ==
    ({CanonSchema} \X BagsUpTo(DedupRows, MaxRows))
    \cup UNION {{s} \X BagsUpTo(InjuryRows(s), MaxRows) : s \in InjurySchemas}
    \cup ({CanonSchema} \X BagsUpTo(FillRows, MaxRows))
    \cup ({CanonSchema \ {"assists"}} \X BagsUpTo(NoAssistsRows, MaxRows))
    \cup UNION {{s} \X BagsUpTo(NameRows(s), MaxRows) :
                  s \in {FullSchema, LegacySchema, CanonSchema}}

\* Captures before, at and after the cutoff of an entity, "Saka" of team
\* ARS, with one capture whose goals are NULL and one after a move to team
\* CHE, and captures of a second entity of team CHE, under the same display
\* name and under another one.
HistRows ==
    {Row(1, ts, "ARS", "Saka", NULL, g, Num(1), Num(1)) :
        ts \in {<<CutoffDay, 0>>, <<CutoffDay, 1>>, <<CutoffDay + 1, 0>>},
        g \in {Num(1), Num(2)}}
    \cup {Row(1, <<CutoffDay - 1, 1>>, "ARS", "Saka", NULL, Num(1), Num(1), Num(1)),
          Row(1, <<CutoffDay, 1>>, "ARS", "Saka", NULL, NullCell, Num(1), Num(1)),
          Row(1, <<CutoffDay + 1, 0>>, "CHE", "Saka", NULL, Num(1), Num(1), Num(1)),
          Row(2, <<CutoffDay, 0>>, "CHE", "Rice", NULL, Num(1), Num(1), Num(1))}
    \cup {[Row(2, ts, "CHE", "Saka", NULL, Num(1), Num(1), Num(1))
             EXCEPT !.total_points = Num(3)] :
          ts \in {<<CutoffDay - 1, 1>>, <<CutoffDay, 0>>, <<CutoffDay + 1, 0>>}}

\* Schemas that lack a column the historical query names.
MismatchSchemas == {LegacySchema \ {"team"}, LegacySchema \ {"goals"}, CanonSchema}

\* Rows of a table with such a schema (a column the schema lacks holds NULL).
MismatchRows(s) ==
    {Row(1, ts, IF "team" \in s THEN "ARS" ELSE NULL,
         IF "name" \in s THEN "Saka" ELSE NULL,
         IF "web_name" \in s THEN "Saka" ELSE NULL,
         IF "goals" \in s THEN Num(1) ELSE NullCell, Num(1), Num(1)) :
        ts \in {<<CutoffDay - 1, 1>>, <<CutoffDay, 0>>}}

\* The <<schema, table>> pairs the historical pages are run on.
HistWarehouses ==
    ({LegacySchema} \X BagsUpTo(HistRows, MaxRows))
    \cup UNION {{s} \X BagsUpTo(MismatchRows(s), MaxRows) : s \in MismatchSchemas}

\* Captures of two entities before, at and after the cutoff.
SharedRows ==
    {Row(i, ts, TeamOfId(i), NameOfId(i), NULL, Num(1), Num(1), Num(1)) :
        i \in Ids,
        ts \in {<<CutoffDay - 1, 1>>, <<CutoffDay, 0>>, <<CutoffDay + 1, 0>>}}

\* The <<schema, table>> pairs on which every page is run.
Warehouses == {LegacySchema} \X BagsUpTo(SharedRows, MaxRows)

----------------------------------------------------------------------------
(* The script runs *)

NoEntry ==
    [present |-> FALSE,
     result |-> [ok |-> FALSE, columns |-> {}, rows |-> EmptyBag, msgs |-> {}]]
Entry(res) == [present |-> TRUE, result |-> res]

\* An entry that is never dropped.
FreshForever(age, ttl) == TRUE

\* st.cache_data serves an entry while its age is below the ttl.
Fresh(age, ttl) == age < ttl

\* The age of an entry dt seconds later; past the ttl the entry is expired
\* whatever its age, so the age is not counted beyond it.
Aged(entry, age, ttl, dt) ==
    IF ~entry.present THEN age
    ELSE IF age + dt >= ttl THEN ttl ELSE age + dt

InitOn(warehouses) ==
    /\ \E w \in warehouses : schema = w[1] /\ table = w[2]
    /\ live_cache = NoEntry
    /\ hist_cache = NoEntry
    /\ live_age = 0
    /\ hist_age = 0
    /\ queried = "idle"
    /\ page = "none"
    /\ screen = {}
    /\ view = NoView

\* The script with page = "Live Control Room" when get_live_data returns res.
LivePage(res) ==
    \E s \in LiveSelections(res) :
        /\ page' = "Live Control Room"
        /\ live_cache' = Entry(res)
        /\ view' = show_live_dashboard(res, s[1], s[2])
        /\ screen' = res.msgs \cup view'.msgs
        /\ UNCHANGED <<schema, table, hist_cache, hist_age>>

\* A run that finds get_live_data's entry in the cache.
LiveHit ==
    /\ live_cache.present /\ Fresh(live_age, LiveTtl)
    /\ LivePage(live_cache.result)
    /\ queried' = "none"
    /\ UNCHANGED live_age

\* A run that finds no entry, or an entry as old as the ttl: the body runs
\* and its value is stored.
LiveMiss ==
    /\ ~(live_cache.present /\ Fresh(live_age, LiveTtl))
    /\ \E res \in GetLiveDataResults : LivePage(res)
    /\ queried' = "live"
    /\ live_age' = 0

\* The script with page = "Team Analysis" when get_historical_data returns res.
TeamPage(res) ==
    \E s \in TeamSelections(res) :
        /\ page' = "Team Analysis"
        /\ hist_cache' = Entry(res)
        /\ view' = show_team_analysis(res, s[1], s[2], s[3])
        /\ screen' = res.msgs \cup view'.msgs
        /\ UNCHANGED <<schema, table, live_cache, live_age>>

\* The call of get_historical_data is served from the cache.
HistHit ==
    /\ hist_cache.present /\ Fresh(hist_age, HistTtl)
    /\ queried' = "none"
    /\ UNCHANGED hist_age

\* The call of get_historical_data runs the body.
HistMiss ==
    /\ ~(hist_cache.present /\ Fresh(hist_age, HistTtl))
    /\ queried' = "hist"
    /\ hist_age' = 0

TeamHit == HistHit /\ TeamPage(hist_cache.result)
TeamMiss == HistMiss /\ \E res \in GetHistoricalDataResults : TeamPage(res)

\* The script with page = "Player Stats" when get_historical_data returns res.
PlayerPage(res) ==
    \E s \in PlayerSelections(res) :
        /\ page' = "Player Stats"
        /\ hist_cache' = Entry(res)
        /\ view' = show_player_stats(res, s[1], s[2])
        /\ screen' = res.msgs \cup view'.msgs
        /\ UNCHANGED <<schema, table, live_cache, live_age>>

PlayerHit == HistHit /\ PlayerPage(hist_cache.result)
PlayerMiss == HistMiss /\ \E res \in GetHistoricalDataResults : PlayerPage(res)

\* dt seconds pass between two script runs.  Once every stored entry is as
\* old as its ttl, more time changes nothing.
Pass(dt) ==
    /\ \/ live_cache.present /\ live_age < LiveTtl
       \/ hist_cache.present /\ hist_age < HistTtl
    /\ live_age' = Aged(live_cache, live_age, LiveTtl, dt)
    /\ hist_age' = Aged(hist_cache, hist_age, HistTtl, dt)
    /\ queried' = "idle"
    /\ UNCHANGED <<schema, table, live_cache, hist_cache, page, screen, view>>

NextLive == LiveHit \/ LiveMiss \/ Pass(Tick)
NextHist == TeamHit \/ TeamMiss \/ PlayerHit \/ PlayerMiss \/ Pass(LongTick)

\* The whole script: every run routes to one of the three pages.
Init == InitOn(Warehouses)
Next ==
    \/ LiveHit \/ LiveMiss
    \/ TeamHit \/ TeamMiss \/ PlayerHit \/ PlayerMiss
    \/ Pass(LongTick)
Spec == Init /\ [][Next]_vars

\* The live page alone, on the tables that vary what it reads.
InitLive == InitOn(LiveWarehouses)
SpecLive == InitLive /\ [][NextLive]_vars

\* The historical pages alone, on the tables that vary what they read.
InitHist == InitOn(HistWarehouses)
SpecHist == InitHist /\ [][NextHist]_vars

\* Two captures of an entity, one before the cutoff and one at it.
CacheRows ==
    {Row(1, <<CutoffDay, 0>>, "ARS", "Saka", NULL, Num(1), Num(1), Num(1)),
     Row(1, <<CutoffDay - 1, 1>>, "ARS", "Saka", NULL, Num(1), Num(1), Num(1))}

\* The whole script with the clock advancing in fine steps, on few tables.
InitCache == InitOn({LegacySchema} \X BagsUpTo(CacheRows, MaxRows))
NextCache ==
    \/ LiveHit \/ LiveMiss
    \/ TeamHit \/ TeamMiss \/ PlayerHit \/ PlayerMiss
    \/ Pass(Tick)
SpecCache == InitCache /\ [][NextCache]_vars

----------------------------------------------------------------------------
(* Claims about the Snapshot (get_live_data)                                *)

\* Number of rows of bag b whose id is i.
CountId(b, i) == SumOver({r \in DOMAIN b : r.id = i}, b)

\* The value of get_live_data the last live run used is a frame (not None).
SnapshotStored == live_cache.present /\ live_cache.result.ok

C2_TieBreakDeterministic ==
    [][(SnapshotStored /\ SnapshotStored')
          => live_cache'.result.rows = live_cache.result.rows]_vars

\* The cell is missing, empty or unparsable.
Unusable(c) ==
    \/ c.kind \in {"null", "nan"}
    \/ c.kind = "text" /\ c.text \notin {"2"}

\* The live page computed its KPIs.
LiveRendered == page = "Live Control Room" /\ view.status = "rendered"

\* C3: in the data the live view computes on and displays, every metric of
\* every row is a number, and it is 0 where the Snapshot's cell was missing,
\* empty or unparsable.
C3_ZeroFill ==
    LiveRendered =>
        \A v \in DOMAIN view.rows : \A c \in MetricColumns :
            /\ v[c].kind = "num"
            /\ \A s \in DOMAIN live_cache.result.rows :
                  (s.id = v.id /\ Unusable(s[c])) => v[c].num = 0

\* The live view shows a row whose assists were NULL in the Snapshot, and
\* one whose goals were an unparsable text.
C3_Witness ==
    /\ LiveRendered
    /\ \E s \in DOMAIN live_cache.result.rows : \E v \in DOMAIN view.rows :
          s.id = v.id /\ s.assists = NullCell /\ v.assists = Num(0)
    /\ \E s \in DOMAIN live_cache.result.rows : \E v \in DOMAIN view.rows :
          s.id = v.id /\ s.goals = Text("x") /\ v.goals = Num(0)

\* C4: every row get_live_data returns has a display name (web_name) when
\* its source row has a value in the legacy or in the canonical name column.
\* (After a rename the legacy value is the row's web_name; without one the
\* row is the source row.)
C4_DisplayNameNonNull ==
    SnapshotStored =>
        \A r \in DOMAIN live_cache.result.rows :
            (r.name # NULL \/ r.web_name # NULL) => r.web_name # NULL

C10_WitnessFill ==
    /\ SnapshotStored
    /\ \E r \in DOMAIN live_cache.result.rows : r.goals = NullCell
    /\ \E i \in Ids : CountId(table, i) > 1

----------------------------------------------------------------------------
(* Claims about failures and empty results                                  *)

HistPages == {"Team Analysis", "Player Stats"}

\* The value of the fetch function the last run used.
LastResult ==
    IF page = "Live Control Room" THEN live_cache.result ELSE hist_cache.result

\* Every message page p puts on the screen when the fetch fails, and every
\* message it puts there when the fetch returns a frame without rows.
FailureScreen(p) ==
    IF p = "Live Control Room"
    THEN UNION {r.msgs \cup show_live_dashboard(r, {}, {}).msgs :
                   r \in {None(MsgNoCredentials), None(MsgAthenaError)}}
    ELSE IF p = "Team Analysis"
    THEN None(MsgHistError).msgs
         \cup show_team_analysis(None(MsgHistError), "", "", {}).msgs
    ELSE None(MsgHistError).msgs
         \cup show_player_stats(None(MsgHistError), "", "").msgs
EmptyScreen(p) ==
    IF p = "Live Control Room"
    THEN show_live_dashboard(Frame({}, EmptyBag), {}, {}).msgs
    ELSE IF p = "Team Analysis"
    THEN show_team_analysis(Frame({}, EmptyBag), "", "", {}).msgs
    ELSE show_player_stats(Frame({}, EmptyBag), "", "").msgs

\* C5: on every page a failed fetch and a fetch of zero rows are presented
\* differently: a run whose fetch failed shows a message and none of the
\* messages of an empty result, and a run whose fetch returned zero rows
\* shows a message and none of the messages of a failure.
C5_FailureDistinctFromEmpty ==
    page # "none" =>
        /\ ~LastResult.ok =>
              screen # {} /\ screen \cap EmptyScreen(page) = {}
        /\ (LastResult.ok /\ LastResult.rows = EmptyBag) =>
              screen # {} /\ screen \cap FailureScreen(page) = {}

\* The part of C5 that the live page meets.
C5_LiveFailureDistinctFromEmpty ==
    page = "Live Control Room" => C5_FailureDistinctFromEmpty

\* C6: when the team column or a metric column is absent from the table's
\* schema, the historical pages compute nothing from it and report an error
\* that is none of the messages of the source-unavailable outcome.
C6_SchemaMismatchDistinct ==
    (page \in HistPages /\ ~(({"team"} \cup TeamMetrics) \subseteq schema)) =>
        /\ view.status # "rendered"
        /\ screen # {}
        /\ screen \cap FailureScreen(page) = {}

\* The part of C6 the code meets: nothing is computed from a table that
\* lacks the column.
C6_AbsentColumnNotMasked ==
    (page \in HistPages /\ ~(({"team"} \cup TeamMetrics) \subseteq schema)) =>
        view.status # "rendered" /\ screen # {}

----------------------------------------------------------------------------
(* Claims about the historical data                                         *)

\* The value of get_historical_data the last historical run used is a frame.
HistoryStored == hist_cache.present /\ hist_cache.result.ok

\* Number of rows of bag b whose ingested_at is ts.
CountAt(b, ts) == SumOver({r \in DOMAIN b : r.ingested_at = ts}, b)

\* The historical page computed its aggregates or KPIs.
HistRendered == page \in HistPages /\ view.status = "rendered"

\* C7: the frame get_historical_data returns has no record of a day before
\* the cutoff day and every record of the cutoff day or later, and so have
\* the rows and the daily buckets the historical pages compute.
C7_CutoffFilter ==
    HistoryStored =>
        /\ \A ts \in Timestamps :
              CountAt(hist_cache.result.rows, ts) =
                  IF ts[1] >= CutoffDay THEN CountAt(table, ts) ELSE 0
        /\ HistRendered =>
              /\ \A r \in DOMAIN view.rows : r.ingested_at[1] >= CutoffDay
              /\ \A d \in view.daily : d.date >= CutoffDay

\* A historical page rendered from a table with a record before the cutoff
\* and a record at the first timestamp of the cutoff day.
C7_Witness ==
    /\ HistoryStored /\ HistRendered
    /\ \E t \in DOMAIN table : t.ingested_at[1] < CutoffDay
    /\ \E t \in DOMAIN table : t.ingested_at = <<CutoffDay, 0>>
    /\ \E r \in DOMAIN hist_cache.result.rows : r.ingested_at = <<CutoffDay, 0>>

\* The number a metric cell of the table stands for (0 when it has none).
RawValue(c) ==
    IF c.kind = "num" THEN c.num ELSE IF c = Text("2") THEN 2 ELSE 0

RECURSIVE SumRaw(_, _)
\* The sum of metric m over the records S of the table.
SumRaw(S, m) ==
    IF S = {} THEN 0
    ELSE LET t == CHOOSE x \in S : TRUE
         IN  RawValue(t[m]) * table[t] + SumRaw(S \ {t}, m)

\* The retained records of the table for a team, or for a display name.
RetainedOfTeam(tm) ==
    {t \in DOMAIN table : t.ingested_at[1] >= CutoffDay /\ t.team = tm}
RetainedOfPlayer(nm) ==
    {t \in DOMAIN table : t.ingested_at[1] >= CutoffDay /\ t.name = nm}

\* One row per date of the records S, with the sum of metric m.
ExpectedDaily(S, m, chart, tm) ==
    {[chart |-> chart, team |-> tm, date |-> d,
      value |-> SumRaw({t \in S : t.ingested_at[1] = d}, m)] :
        d \in {t.ingested_at[1] : t \in S}}

\* The team page's trend chart has one row per date of the team's retained
\* records, with the sum of the metric (the comparison chart likewise, per
\* team).
TeamDailyAggregated ==
    (HistRendered /\ page = "Team Analysis") =>
        view.daily =
            ExpectedDaily(RetainedOfTeam(view.sel.team), view.sel.metric,
                          "trend", view.sel.team)
            \cup (IF view.sel.teams = {} THEN {}
                  ELSE UNION {ExpectedDaily(RetainedOfTeam(tm), view.sel.metric,
                                            "comparison", tm) :
                                 tm \in {view.sel.team} \cup view.sel.teams})

\* The player page hands over one row per date of the player's retained
\* records, holding the sums of the metrics.
PlayerDailyAggregated ==
    (HistRendered /\ page = "Player Stats") =>
        LET S == RetainedOfPlayer(view.sel.player)
        IN  \A d \in {t.ingested_at[1] : t \in S} :
                LET rows == BagRestrict(view.rows,
                                {r \in DOMAIN view.rows : r.ingested_at[1] = d})
                IN  /\ BagLen(rows) = 1
                    /\ \A r \in DOMAIN rows : \A m \in TeamMetrics :
                          r[m].num = SumRaw({t \in S : t.ingested_at[1] = d}, m)

\* C8: for teams and for entities alike, the aggregate handed to the
\* presentation layer has exactly one row per (key, date) of the retained
\* records, with the sum of the metric over them.
C8_DailyAggregate == TeamDailyAggregated /\ PlayerDailyAggregated

----------------------------------------------------------------------------
(* Claims about empty input                                                 *)

\* A view that computed nothing: no rows, no KPI, no aggregate, no exception.
NoData(v) ==
    /\ v.status \in {"empty", "unavailable"}
    /\ v.rows = EmptyBag /\ v.kpis = <<>> /\ v.daily = {}

\* C9: a query that succeeds on a table with no rows (for the historical
\* query: no rows at or after the cutoff) makes the fetch function return a
\* frame without rows, not None, and the page that consumes such a frame
\* ends in its no-data state without raising or computing anything.
C9_EmptyInput ==
    /\ table = EmptyBag =>
          \A d \in LiveQueryResults(table) :
              LET df == get_live_data("ok", d) IN df.ok /\ df.rows = EmptyBag
    /\ (\A t \in DOMAIN table : t.ingested_at[1] < CutoffDay) =>
          LET df == get_historical_data("ok") IN df.ok /\ df.rows = EmptyBag
    /\ (page # "none" /\ LastResult.ok /\ LastResult.rows = EmptyBag) =>
          NoData(view) /\ screen # {}

\* A historical page run on a table that has records, all of them older than
\* the cutoff: the query succeeded with zero rows.
C9_Witness ==
    /\ page \in HistPages /\ HistoryStored
    /\ table # EmptyBag /\ hist_cache.result.rows = EmptyBag
    /\ view.status = "unavailable"

\* The live page run on the empty frame of an empty table.
C9_WitnessLive ==
    /\ page = "Live Control Room" /\ SnapshotStored
    /\ table = EmptyBag /\ view.status = "empty"

----------------------------------------------------------------------------
(* Claims about the cache                                                   *)

\* The step is a script run of the live page, or of a historical page.
LiveRun == queried' # "idle" /\ page' = "Live Control Room"
HistRun == queried' # "idle" /\ page' \in HistPages

\* The views the pages can compute from a value of their fetch function.
LiveViews(res) ==
    {show_live_dashboard(res, s[1], s[2]) : s \in LiveSelections(res)}
HistViews(res) ==
    {show_team_analysis(res, s[1], s[2], s[3]) : s \in TeamSelections(res)}
    \cup {show_player_stats(res, s[1], s[2]) : s \in PlayerSelections(res)}

\* C11: a run that calls get_live_data less than 600 s after its entry was
\* stored (get_historical_data: 3600 s) sends no query, leaves the entry as
\* it is and renders from the stored value, a stored None with its message
\* included; a run that finds no entry or one as old as the ttl sends the
\* query and stores a new entry of age 0; no other step changes an entry.
C11_TimeBoxedCache ==
    [][/\ LiveRun =>
            IF live_cache.present /\ live_age < 600
            THEN /\ queried' = "none"
                 /\ live_cache' = live_cache /\ live_age' = live_age
                 /\ view' \in LiveViews(live_cache.result)
                 /\ live_cache.result.msgs \subseteq screen'
            ELSE /\ queried' = "live"
                 /\ live_cache'.present /\ live_age' = 0
                 /\ live_cache'.result \in GetLiveDataResults
       /\ HistRun =>
            IF hist_cache.present /\ hist_age < 3600
            THEN /\ queried' = "none"
                 /\ hist_cache' = hist_cache /\ hist_age' = hist_age
                 /\ view' \in HistViews(hist_cache.result)
                 /\ hist_cache.result.msgs \subseteq screen'
            ELSE /\ queried' = "hist"
                 /\ hist_cache'.present /\ hist_age' = 0
                 /\ hist_cache'.result \in GetHistoricalDataResults
       /\ ~(LiveRun /\ queried' = "live") => live_cache' = live_cache
       /\ ~(HistRun /\ queried' = "hist") => hist_cache' = hist_cache
      ]_vars

\* A historical page served from a stored None that is older than the ttl
\* of get_live_data, while the entry of get_live_data has expired.
C11_Witness ==
    /\ page \in HistPages /\ queried = "none"
    /\ hist_cache.present /\ ~hist_cache.result.ok
    /\ hist_age >= LiveTtl /\ hist_age < HistTtl
    /\ live_cache.present /\ live_age = LiveTtl

\* The live page after a run that replaced an expired entry: the stored
\* value is a frame and the screen shows no failure message.
C11_WitnessLive ==
    /\ page = "Live Control Room" /\ queried = "live"
    /\ live_cache.present /\ live_cache.result.ok /\ live_age = 0
    /\ hist_cache.present /\ hist_age > 0

----------------------------------------------------------------------------
(* Claims about the live view                                               *)

\* The rows of the Snapshot that match the selections of the last live run:
\* the team is among the selected teams and the display name among the
\* selected players, where a multiselect left empty selects nothing out.
MatchingRows ==
    LET snap == live_cache.result.rows
    IN  BagRestrict(snap,
            {r \in DOMAIN snap :
                /\ view.sel.teams # {} => r.team \in view.sel.teams
                /\ view.sel.players # {} => r.web_name \in view.sel.players})

NoMatchNeverSelected == MsgNoMatch \notin screen

\* The last run is a live run on a non-empty Snapshot of a table that has
\* every column the page reads, the two optional ones aside, and a team and
\* a display name in every row.
WellFormedSnapshot ==
    /\ page = "Live Control Room" /\ SnapshotStored
    /\ live_cache.result.rows # EmptyBag
    /\ CanonSchema \subseteq schema
    /\ \A r \in DOMAIN live_cache.result.rows : r.team # NULL /\ r.web_name # NULL

\* C13: whichever of injury_news and chance_of_playing the table has, the
\* live page of a non-empty Snapshot completes without raising, and it shows
\* the injuries table only when both columns are there.
C13_OptionalInjuryColumns ==
    WellFormedSnapshot =>
        /\ view.status = "rendered"
        /\ view.injuries # EmptyBag => OptionalColumns \subseteq schema

\* The part of C13 the code meets: the page completes unless the table has
\* injury_news without chance_of_playing, and then it raises only when some
\* row has an injury note.
C13_CompletesOtherwise ==
    WellFormedSnapshot =>
        \/ view.status = "rendered"
        \/ /\ view.status = "raised" /\ view.exc = "KeyError"
           /\ "injury_news" \in schema /\ "chance_of_playing" \notin schema
           /\ \E r \in DOMAIN live_cache.result.rows : r.injury_news # ""

\* The live page rendered without the injuries table on a table that has
\* chance_of_playing and no injury_news.
C13_WitnessNoNews ==
    /\ WellFormedSnapshot /\ view.status = "rendered"
    /\ "chance_of_playing" \in schema /\ "injury_news" \notin schema
    /\ MsgNoInjuryData \in screen

----------------------------------------------------------------------------
(* Claims about the player history                                          *)

\* The records of entity i at or after the cutoff that carry display name nm.
EntityRecords(i, nm) ==
    {t \in DOMAIN table : t.ingested_at[1] >= CutoffDay /\ t.id = i /\ t.name = nm}

RECURSIVE MaxRaw(_, _)
\* The largest value of metric m over the records S of the table (S # {}).
MaxRaw(S, m) ==
    LET t == CHOOSE x \in S : TRUE
    IN  IF S = {t} THEN RawValue(t[m])
        ELSE LET rest == MaxRaw(S \ {t}, m)
             IN  IF RawValue(t[m]) > rest THEN RawValue(t[m]) ELSE rest

\* The rows and the KPIs of the player page are those of entity i: as many
\* rows as the entity has records under the selected name, each row the
\* capture of one of them, and each KPI the maximum over them.
IsolatedTo(i) ==
    LET S == EntityRecords(i, view.sel.player)
    IN  /\ S # {}
        /\ BagLen(view.rows) = SumOver(S, table)
        /\ \A v \in DOMAIN view.rows : \E t \in S :
              /\ t.ingested_at = v.ingested_at /\ t.team = v.team
              /\ \A m \in {"goals", "assists", "total_points"} :
                    v[m].num = RawValue(t[m])
        /\ view.kpis = <<MaxRaw(S, "goals"), MaxRaw(S, "assists"),
                         MaxRaw(S, "total_points")>>

\* The player page computed its KPIs.
PlayerRendered == HistRendered /\ page = "Player Stats"

\* C14: the rows show_player_stats selects for the chosen player and its
\* three KPIs come from the records of exactly one entity id, also when two
\* ids share the display name and when the entity changed its team.
C14_EntityIsolation == PlayerRendered => \E i \in Ids : IsolatedTo(i)

\* The part of C14 the code meets: when one id alone carries the selected
\* name, the page shows that entity's records, whatever their team and
\* whatever the team filter.
C14_IsolatedWhenNameUnique ==
    (/\ PlayerRendered
     /\ Cardinality({i \in Ids : EntityRecords(i, view.sel.player) # {}}) = 1)
        => \E i \in Ids : IsolatedTo(i)

\* The player page of an entity that alone carries its name and has records
\* in two teams, with the team filter on one of them.
C14_WitnessTeamChange ==
    /\ PlayerRendered /\ view.sel.team # "All"
    /\ Cardinality({i \in Ids : EntityRecords(i, view.sel.player) # {}}) = 1
    /\ \E r \in DOMAIN view.rows : r.team # view.sel.team

====
